---------------------------- MODULE Spec2Model ----------------------------
(***************************************************************************)
(* Model of ngspicex (src/ngspicex/__init__.py): the NgSpice handle that   *)
(* drives the ngspice shared library (command dispatch, the callbacks the  *)
(* engine invokes during a native call, the tqdm progress bar) and the     *)
(* VectorInfo descriptor with the vector accessors built on it.            *)
(*                                                                         *)
(* Text is a sequence of one-character strings, so that prefix tests,      *)
(* slicing and the two regular expressions of the source are computed on   *)
(* the characters.  Percentages are integers in tenths of a percent        *)
(* (99.9 is 999); the status lines of the model carry at most one          *)
(* fractional digit, which this representation holds exactly.              *)
(***************************************************************************)
EXTENDS Integers, Sequences, FiniteSets, TLC

(***************************************************************************)
(* Bounds of the model.                                                    *)
(***************************************************************************)
\* callbacks the engine may invoke during one native call
MaxCallbacks == 2
\* largest v_length of a vector of the engine's store
MaxLen == 3

(***************************************************************************)
(* Characters and text.                                                    *)
(***************************************************************************)
Digits == {"0", "1", "2", "3", "4", "5", "6", "7", "8", "9"}

Letters ==
    {"a", "b", "c", "d", "e", "f", "g", "h", "i", "j", "k", "l", "m",
     "n", "o", "p", "q", "r", "s", "t", "u", "v", "w", "x", "y", "z"}

\* a byte that is not valid UTF-8 wherever it stands (0xff)
BadByte == "\\xff"

\* the regular-expression class \w
IsWord(c) == c \in Digits \cup Letters \cup {"_"}

\* the regular-expression class \s
IsSpace(c) == c \in {" ", "\t", "\n"}

IsDigit(c) == c \in Digits

DigitVal(c) ==
    CASE c = "0" -> 0 [] c = "1" -> 1 [] c = "2" -> 2 [] c = "3" -> 3
      [] c = "4" -> 4 [] c = "5" -> 5 [] c = "6" -> 6 [] c = "7" -> 7
      [] c = "8" -> 8 [] c = "9" -> 9

\* s[a..b], empty when a > b
Sub(s, a, b) == IF a > b THEN << >> ELSE SubSeq(s, a, b)

\* bytes.startswith / str.startswith
StartsWith(s, p) == Len(s) >= Len(p) /\ SubSeq(s, 1, Len(p)) = p

\* s[n:]
DropFirst(s, n) == Sub(s, n + 1, Len(s))

AllWord(s, a, b) == \A x \in a..b : IsWord(s[x])

AllSpace(s, a, b) == \A x \in a..b : IsSpace(s[x])

\* bytes.decode(): the text of a valid byte string, UnicodeDecodeError on a
\* byte string that holds an invalid byte
Decode(b) ==
    IF \E x \in DOMAIN b : b[x] = BadByte
    THEN [ok |-> FALSE, text |-> << >>]
    ELSE [ok |-> TRUE, text |-> b]

(***************************************************************************)
(* float(text) on the texts the second group of the percentage pattern can *)
(* capture: digits with at most one other character among them.  The value *)
(* is in tenths; ok is FALSE where float() raises ValueError.              *)
(***************************************************************************)
RECURSIVE IntOf(_)
IntOf(ds) ==
    IF ds = << >> THEN 0
    ELSE 10 * IntOf(SubSeq(ds, 1, Len(ds) - 1)) + DigitVal(ds[Len(ds)])

RECURSIVE Pow10(_)
Pow10(n) == IF n = 0 THEN 1 ELSE 10 * Pow10(n - 1)

FloatError == [ok |-> FALSE, v |-> 0]

FloatOf(v) == [ok |-> TRUE, v |-> v]

ParseFloat(t) ==
    LET odd == {x \in DOMAIN t : ~IsDigit(t[x])}
    IN  IF odd = {}
        THEN IF t = << >> THEN FloatError ELSE FloatOf(10 * IntOf(t))
        ELSE IF Cardinality(odd) > 1 THEN FloatError
        ELSE LET x  == CHOOSE y \in odd : TRUE
                 c  == t[x]
                 d1 == Sub(t, 1, x - 1)
                 d2 == Sub(t, x + 1, Len(t))
             IN  CASE c = "." ->
                        IF d1 = << >> /\ d2 = << >> THEN FloatError
                        ELSE FloatOf(10 * IntOf(d1)
                                     + (IF d2 = << >> THEN 0 ELSE DigitVal(d2[1])))
                   [] IsSpace(c) ->
                        \* surrounding white space is stripped
                        IF d1 # << >> /\ d2 # << >> THEN FloatError
                        ELSE IF d1 = << >> /\ d2 = << >> THEN FloatError
                        ELSE FloatOf(10 * IntOf(d1 \o d2))
                   [] c \in {"+", "-"} ->
                        IF d1 # << >> \/ d2 = << >> THEN FloatError
                        ELSE FloatOf((IF c = "-" THEN -1 ELSE 1) * 10 * IntOf(d2))
                   [] c = "_" ->
                        IF d1 = << >> \/ d2 = << >> THEN FloatError
                        ELSE FloatOf(10 * IntOf(d1 \o d2))
                   [] c = "e" ->
                        IF d1 = << >> \/ d2 = << >> THEN FloatError
                        ELSE FloatOf(10 * IntOf(d1) * Pow10(IntOf(d2)))
                   [] OTHER -> FloatError

(***************************************************************************)
(* re.search with the percentage pattern of ng_send_stat_inner: a word,    *)
(* a colon, white space, digits / any one character / digits, a percent     *)
(* sign, white space, the end of the text.                                 *)
(*                                                                         *)
(* A match is a word text[i..j-1], the colon text[j], white space          *)
(* text[j+1..k-1], the second group text[k..p-1], the percent sign text[p] *)
(* and white space to the end.  The search takes the leftmost start i; the *)
(* word is greedy and must end at the colon; \s+ is greedy, so k is the    *)
(* largest that leaves a group of digits with at most one other character  *)
(* (the unescaped dot: any character but a newline).                       *)
(***************************************************************************)
PctBody(t) ==
    LET odd == {x \in DOMAIN t : ~IsDigit(t[x])}
    IN  Cardinality(odd) <= 1 /\ \A x \in odd : t[x] # "\n"

PctMatches(t) ==
    {m \in (1..Len(t)) \X (1..Len(t)) \X (1..Len(t)) \X (1..Len(t)) :
        LET i == m[1]
            j == m[2]
            k == m[3]
            p == m[4]
        IN  /\ i < j /\ j + 2 <= k /\ k <= p
            /\ AllWord(t, i, j - 1)
            /\ t[j] = ":"
            /\ AllSpace(t, j + 1, k - 1)
            /\ PctBody(Sub(t, k, p - 1))
            /\ t[p] = "%"
            /\ AllSpace(t, p + 1, Len(t))}

NoMatch == [matched |-> FALSE, g1 |-> << >>, g2 |-> << >>]

MatchPercent(t) ==
    LET ms == PctMatches(t)
    IN  IF ms = {} THEN NoMatch
        ELSE LET i == CHOOSE x \in {m[1] : m \in ms} :
                          \A m \in ms : x <= m[1]
                 mi == {m \in ms : m[1] = i}
                 k == CHOOSE x \in {m[3] : m \in mi} :
                          \A m \in mi : x >= m[3]
                 m == CHOOSE x \in mi : x[3] = k
             IN  [matched |-> TRUE,
                  g1 |-> Sub(t, m[1], m[2] - 1),
                  g2 |-> Sub(t, m[3], m[4] - 1)]

(***************************************************************************)
(* The texts of the source and the inputs of the model.                    *)
(***************************************************************************)
T_stdout == <<"s", "t", "d", "o", "u", "t">>
T_stderr == <<"s", "t", "d", "e", "r", "r">>
T_run == <<"r", "u", "n">>
T_run_sp == <<"r", "u", "n", " ">>
T_quit == <<"q", "u", "i", "t">>
T_reset == <<"r", "e", "s", "e", "t">>
T_source == <<"s", "o", "u", "r", "c", "e", " ">>
T_init_data ==
    <<"n", "g", "_", "s", "e", "n", "d", "_", "i", "n", "i", "t", "_",
      "d", "a", "t", "a">>
T_bg_thread ==
    <<"n", "g", "_", "b", "g", "_", "t", "h", "r", "e", "a", "d", "_",
      "r", "u", "n", "n", "i", "n", "g">>
T_detached ==
    <<"D", "L", "L", " ", "a", "l", "r", "e", "a", "d", "y", " ",
      "d", "e", "t", "a", "c", "h", "e", "d", ".", ".", ".">>
T_exit ==
    <<"n", "g", "_", "c", "o", "n", "t", "r", "o", "l", "l", "e", "d", "_",
      "e", "x", "i", "t", ":", " ">>
T_unload == <<" ", "(", "u", "n", "l", "o", "a", "d", "=">>
T_exit2 == <<",", " ", "e", "x", "i", "t", "=">>
T_True == <<"T", "r", "u", "e">>
T_False == <<"F", "a", "l", "s", "e">>
NL == <<"\n">>

\* lines the engine passes to the character-output callback
L_out == <<"s", "t", "d", "o", "u", "t", " ", "h", "i">>
L_err == <<"s", "t", "d", "e", "r", "r", " ", "n", "o">>
L_plain == <<"h", "i">>
L_bad == <<"h", BadByte>>

\* lines the engine passes to the statistics callback
P_0 == <<"t", ":", " ", "0", "%">>
P_30 == <<"t", ":", " ", "3", "0", "%">>
P_605 == <<"t", ":", " ", "6", "0", ".", "5", "%">>
P_999 == <<"t", ":", " ", "9", "9", ".", "9", "%">>
P_100 == <<"t", ":", " ", "1", "0", "0", "%">>
P_empty == <<"t", ":", " ", "%">>
P_x == <<"t", ":", " ", "x", "%">>
N_ok == <<"o", "k">>
S_bad == <<"t", BadByte>>
P_161 == <<"t", ":", " ", "1", "6", ".", "1", "%">>
P_802 == <<"t", ":", " ", "8", "0", ".", "2", "%">>

CharLines == {L_out, L_err, L_plain, L_bad}

StatLines == {P_0, P_30, P_605, P_999, P_100, P_empty, P_x, N_ok, S_bad}

\* the pattern and float() on the lines of the model, computed once
\* statistics lines whose percentages are not exact in binary
RoundLines == {P_0, P_161, P_802, P_999, P_100}

MatchOfLine == [l \in StatLines \cup RoundLines |-> MatchPercent(Decode(l).text)]

FloatOfLine == [l \in StatLines \cup RoundLines |-> ParseFloat(MatchOfLine[l].g2)]

\* (status, unload, exit) of a controlled exit
ExitArgs == {<<0, FALSE, FALSE>>, <<1, TRUE, TRUE>>}

\* a Python value handed where text is expected
Str(t) == [type |-> "str", text |-> t]
Bytes(t) == [type |-> "bytes", text |-> t]
NotText == [type |-> "int", text |-> << >>]

CmdInputs == {Str(T_run), Bytes(T_quit), NotText}

F_cir == <<"a", ".", "c", "i", "r">>
C_title == <<"*", " ", "t">>
C_end == <<".", "e", "n", "d">>

CircInputs == {<<Str(C_title), Str(C_end)>>, <<Str(C_title), NotText>>}

\* the silent keyword of send_circ: absent, or given with a value
KwSilent == {"absent", "True", "False"}

(***************************************************************************)
(* State.                                                                  *)
(***************************************************************************)
VARIABLES
    use_progress_bar,   \* NgSpice.use_progress_bar
    _attached,           \* NgSpice._attached
    _silent,             \* NgSpice._silent
    _msg,                \* NgSpice._msg
    pbar,               \* NgSpice.pbar: no bar, or the tqdm bar (desc, n)
    pbar_value,         \* NgSpice.pbar_value, in tenths of a percent
    _callbacks,          \* NgSpice._callbacks
    registered,         \* the callbacks ngSpice_Init was given
    pc,                 \* idle, or the native call in progress
    op,                 \* the method called last (in progress when pc is not idle)
    result,             \* how the last call ended
    ngLog,              \* native entry points invoked by the call named by op
    stdout,             \* lines written to the sink by that call: count and last
    cbCount,            \* callbacks invoked in the native call in progress
    cb,                 \* the last callback invoked in that call and its outcome
    fed,                \* history of the statistics lines fed with silent off
    store,              \* the engine's vectors
    vecinfo,            \* the engine's transient vector descriptor
    ret,                \* the value the last vector query returned
    held                \* a value a query returned that the caller has kept

hvars ==
    <<use_progress_bar, _attached, _silent, _msg, pbar, pbar_value, _callbacks,
      registered, pc, op, result, ngLog, stdout, cbCount, cb, fed>>

vvars == <<store, vecinfo, ret, held>>

vars == <<hvars, vvars>>

NoBar == [exists |-> FALSE, desc |-> << >>, n |-> 0, r |-> 0]

NoOut == [n |-> 0, last |-> [via |-> "none", text |-> << >>]]

NoCb == [name |-> "none", arg |-> << >>, ret |-> 0, fault |-> FALSE,
         updates |-> << >>]

CallbackNames ==
    {"send_char", "send_stat", "exit", "send_data", "send_init_data",
     "bg_thread_running"}

\* fed: "none" before any statistics line was fed with silent off, "mono"
\* while the lines fed are matching lines whose percentages are in [0, 100]
\* and never decrease (last is the latest), "broken" afterwards
NoFed == [seq |-> "none", last |-> 0]

\* the percentage from which a bar is finalized (99.9)
FinalPct == 999

\* the total of a bar (100.0)
BarTotal == 1000

(***************************************************************************)
(* NgSpice.write: the message is recorded; it goes to the bar's writer or  *)
(* to standard output unless the handle is silent.                         *)
(***************************************************************************)
Emit(out, via, text) == [n |-> out.n + 1, last |-> [via |-> via, text |-> text]]

\* the message recorded only when the handle is not silent
WriteMsgUnlessSilent(m) == IF _silent THEN _msg ELSE m

WriteMsg(m) == m

\* write with the test of the silent flag inverted
WriteOutInverted(out, m) ==
    IF _silent
    THEN IF pbar.exists
         THEN Emit(out, "pbar", m \o NL)
         ELSE Emit(out, "stdout", m \o NL)
    ELSE out

\* write that ignores the bar and always uses standard output
WriteOutStdoutOnly(out, m) ==
    IF ~_silent THEN Emit(out, "stdout", m \o NL) ELSE out

WriteOut(out, m) ==
    IF ~_silent
    THEN IF pbar.exists
         THEN Emit(out, "pbar", m \o NL)
         ELSE Emit(out, "stdout", m \o NL)
    ELSE out

(***************************************************************************)
(* The callbacks.  The engine invokes them during a native call, each to   *)
(* completion.  A Python exception raised in the body of a ctypes callback *)
(* leaves the body (fault): ctypes reports it on stderr and the status the *)
(* engine reads is not set by the body, so it is any value.                *)
(***************************************************************************)
InNative == pc \in {"ngSpice_Command", "ngSpice_Circ"}

CallbackEnabled == InNative /\ cbCount < MaxCallbacks

\* the statuses the engine may read from a callback
ReturnStatus(fault) == IF fault THEN {0, 1} ELSE {0}

CallbackDone(name, arg, fault, updates) ==
    /\ \E r \in ReturnStatus(fault) :
          cb' = [name |-> name, arg |-> arg, ret |-> r, fault |-> fault,
                 updates |-> updates]
    /\ cbCount' = cbCount + 1
    /\ UNCHANGED <<use_progress_bar, _attached, _silent, _callbacks, registered,
                   pc, op, result, ngLog>>
    /\ UNCHANGED vvars

\* ng_send_char_inner: the text written for a line of the engine
CharText(value) ==
    IF StartsWith(value, T_stdout) THEN DropFirst(Decode(value).text, Len(T_stdout))
    ELSE IF StartsWith(value, T_stderr) THEN DropFirst(Decode(value).text, Len(T_stderr))
    ELSE Decode(value).text

ng_send_char_inner(value) ==
    /\ CallbackEnabled
    /\ IF Decode(value).ok
       THEN /\ _msg' = WriteMsg(CharText(value))
            /\ stdout' = WriteOut(stdout, CharText(value))
       ELSE UNCHANGED <<_msg, stdout>>
    /\ UNCHANGED <<pbar, pbar_value, fed>>
    /\ CallbackDone("send_char", value, ~Decode(value).ok, << >>)

\* ng_send_stat_inner: whether the body raises (decode of the line, float of
\* the captured percentage)
StatFault(value) ==
    \/ ~Decode(value).ok
    \/ /\ ~_silent
       /\ MatchOfLine[value].matched
       /\ ~FloatOfLine[value].ok

\* the percentage of a line that matches
StatPct(value) == FloatOfLine[value].v

(***************************************************************************)
(* Python floats (IEEE doubles) of the percentages.  A double x is         *)
(* [t, k]: x = t/10 + k * u, with t in tenths and u = 2^-FracBits / 10, so *)
(* that k is the part of x that tenths do not show.  Round gives the       *)
(* double nearest to an exact value (ties to even); the values rounded are *)
(* at least 0.1 in magnitude, or exact.                                    *)
(***************************************************************************)
\* bits of the fraction of a double
MantissaBits == 52

\* u is fine enough for the doubles from 0.0625 up
FracBits == 56

RECURSIVE Pow2(_)
Pow2(n) == IF n = 0 THEN 1 ELSE 2 * Pow2(n - 1)

\* 2^e modulo 10 and modulo 20
Pow2Mod10 ==
    [e \in 1..FracBits |-> CASE e % 4 = 0 -> 6 [] e % 4 = 1 -> 2
                              [] e % 4 = 2 -> 4 [] OTHER -> 8]

Pow2Mod20 ==
    [e \in 2..FracBits |-> CASE e % 4 = 0 -> 16 [] e % 4 = 1 -> 12
                              [] e % 4 = 2 -> 4 [] OTHER -> 8]

\* 2^j <= t/10 + k * u, for t > 0
AtLeastPow2(t, k, j) ==
    IF j >= 0
    THEN t > 10 * Pow2(j) \/ (t = 10 * Pow2(j) /\ k >= 0)
    ELSE t * Pow2(-j) > 10 \/ (t * Pow2(-j) = 10 /\ k >= 0)

\* the binary exponent of t/10 + k * u, for t > 0
Exp2(t, k) ==
    LET js == {j \in (MantissaBits - FracBits)..10 : AtLeastPow2(t, k, j)}
    IN  CHOOSE j \in js : \A i \in js : i <= j

\* the double nearest to t/10 + k * u, for t > 0
RoundPos(t, k) ==
    LET e == MantissaBits - Exp2(t, k)
        w == FracBits - e
        D == 10 * Pow2(w)
        R == (Pow2(w) * (((t % 10) * Pow2Mod10[e]) % 10) + k) % D
        M == (Pow2(w) * (((t % 20) * Pow2Mod20[e]) % 20) + k - R) % (2 * D)
    IN  IF 2 * R < D \/ (2 * R = D /\ M = 0)
        THEN [t |-> t, k |-> k - R]
        ELSE [t |-> t, k |-> k + D - R]

Round(t, k) ==
    IF t = 0 THEN [t |-> t, k |-> k]
    ELSE IF t < 0 THEN [t |-> t, k |-> -RoundPos(-t, -k).k]
    ELSE RoundPos(t, k)

\* float of a decimal text worth t tenths
Dbl(t) == Round(t, 0)

\* x - y and x + y of doubles
FSub(x, y) == Round(x.t - y.t, x.k - y.k)

FAdd(x, y) == Round(x.t + y.t, x.k + y.k)

\* the count with the last update computed from the value stored before
BarNStaleValue(percentage) ==
    LET n1 == FAdd([t |-> pbar.n, k |-> pbar.r],
                   FSub(Dbl(percentage), Dbl(pbar_value)))
    IN  IF percentage >= FinalPct
        THEN FAdd(n1, FSub(Dbl(BarTotal), Dbl(pbar_value)))
        ELSE n1

\* the count of the bar (tqdm's n) after the updates ng_send_stat_inner
\* applies for a percentage
BarN(percentage) ==
    LET n1 == FAdd([t |-> pbar.n, k |-> pbar.r],
                   FSub(Dbl(percentage), Dbl(pbar_value)))
    IN  IF percentage >= FinalPct
        THEN FAdd(n1, FSub(Dbl(BarTotal), Dbl(percentage)))
        ELSE n1

\* the deltas with the difference taken the wrong way round
StatUpdatesSwapped(percentage) ==
    IF percentage >= FinalPct
    THEN <<pbar_value - percentage, BarTotal - percentage>>
    ELSE <<pbar_value - percentage>>

\* the deltas ng_send_stat_inner applies to the bar for a percentage
StatUpdates(percentage) ==
    IF percentage >= FinalPct
    THEN <<percentage - pbar_value, BarTotal - percentage>>
    ELSE <<percentage - pbar_value>>

RECURSIVE SumSeq(_)
SumSeq(q) == IF q = << >> THEN 0 ELSE q[1] + SumSeq(Tail(q))

\* the bar after a matching line
StatBar(name, percentage) ==
    IF pbar.exists
    THEN IF percentage >= FinalPct
         THEN NoBar
         ELSE [pbar EXCEPT !.n = BarN(percentage).t, !.r = BarN(percentage).k]
    ELSE IF use_progress_bar
         THEN [exists |-> TRUE, desc |-> name, n |-> 0, r |-> 0]
         ELSE pbar

\* pbar_value after a matching line
StatValue(percentage) ==
    IF pbar.exists THEN percentage
    ELSE IF use_progress_bar THEN 0
    ELSE pbar_value

\* the history of the lines fed with silent off
FedNext(value) ==
    LET d == Decode(value)
        m == MatchOfLine[value]
        f == FloatOfLine[value]
    IN  IF d.ok /\ m.matched /\ f.ok /\ f.v >= 0 /\ f.v <= BarTotal
           /\ fed.seq # "broken" /\ (fed.seq = "mono" => f.v >= fed.last)
        THEN [seq |-> "mono", last |-> f.v]
        ELSE [seq |-> "broken", last |-> 0]

ng_send_stat_inner(value) ==
    /\ CallbackEnabled
    /\ IF StatFault(value) \/ _silent
       THEN UNCHANGED <<_msg, stdout, pbar, pbar_value>>
       ELSE IF MatchOfLine[value].matched
       THEN /\ pbar' = StatBar(MatchOfLine[value].g1, StatPct(value))
            /\ pbar_value' = StatValue(StatPct(value))
            /\ UNCHANGED <<_msg, stdout>>
       ELSE /\ _msg' = WriteMsg(Decode(value).text)
            /\ stdout' = WriteOut(stdout, Decode(value).text)
            /\ UNCHANGED <<pbar, pbar_value>>
    /\ fed' = IF _silent THEN [seq |-> "broken", last |-> 0] ELSE FedNext(value)
    /\ CallbackDone("send_stat", value, StatFault(value),
                    IF ~StatFault(value) /\ ~_silent /\ pbar.exists
                       /\ MatchOfLine[value].matched
                    THEN StatUpdates(StatPct(value)) ELSE << >>)

BoolText(b) == IF b THEN T_True ELSE T_False

StatusText(status) == IF status = 0 THEN <<"0">> ELSE <<"1">>

\* ng_controlled_exit_inner: the line it prints
ExitText(status, unload, exit) ==
    T_exit \o StatusText(status) \o T_unload \o BoolText(unload)
        \o T_exit2 \o BoolText(exit) \o <<")">> \o NL

ExitOut(out, status, unload, exit) ==
    Emit(out, "print", ExitText(status, unload, exit))

ng_controlled_exit_inner(status, unload, exit) ==
    /\ CallbackEnabled
    /\ stdout' = ExitOut(stdout, status, unload, exit)
    /\ UNCHANGED <<_msg, pbar, pbar_value, fed>>
    /\ CallbackDone("exit", << >>, FALSE, << >>)

ng_send_data_inner ==
    /\ CallbackEnabled
    /\ UNCHANGED <<_msg, stdout, pbar, pbar_value, fed>>
    /\ CallbackDone("send_data", << >>, FALSE, << >>)

ng_send_init_data_inner ==
    /\ CallbackEnabled
    /\ _msg' = WriteMsg(T_init_data)
    /\ stdout' = WriteOut(stdout, T_init_data)
    /\ UNCHANGED <<pbar, pbar_value, fed>>
    /\ CallbackDone("send_init_data", << >>, FALSE, << >>)

ng_bg_thread_running_inner ==
    /\ CallbackEnabled
    /\ _msg' = WriteMsg(T_bg_thread)
    /\ stdout' = WriteOut(stdout, T_bg_thread)
    /\ UNCHANGED <<pbar, pbar_value, fed>>
    /\ CallbackDone("bg_thread_running", << >>, FALSE, << >>)

(***************************************************************************)
(* Command dispatch.  A dispatch method runs up to its native call in one  *)
(* step; the engine then invokes callbacks; the return of the native call  *)
(* runs the rest of the method.                                            *)
(***************************************************************************)
\* str.encode('utf-8')
Encode(cmd) == [type |-> "bytes", text |-> cmd.text]

\* the silent argument of a call, as the keyword of send_circ names it
KwOf(sil) == IF sil THEN "True" ELSE "False"

\* the start of every call of a method of the handle: the method and the
\* silent argument it is given (absent when it has none or is not given one)
Begin(name, kw) ==
    /\ pc = "idle"
    /\ op' = [name |-> name, silent |-> kw]
    /\ UNCHANGED <<use_progress_bar, _callbacks, registered, fed, cb, cbCount>>
    /\ UNCHANGED vvars

\* a method that fails before any native call
Raise(error) ==
    /\ result' = error
    /\ pc' = "idle"
    /\ ngLog' = << >>
    /\ stdout' = NoOut
    /\ UNCHANGED <<_attached, _silent, _msg, pbar, pbar_value>>

\* _silent as send_cmd sets it before the native call
SilentForCmd(sil) == sil

\* send_cmd with _silent set before the type of cmd is tested
SendCmdBodySilentFirst(cmd, sil) ==
    IF cmd.type \notin {"bytes", "str"}
    THEN /\ _silent' = SilentForCmd(sil)
         /\ result' = "TypeError"
         /\ pc' = "idle"
         /\ ngLog' = << >>
         /\ stdout' = NoOut
         /\ UNCHANGED <<_attached, _msg, pbar, pbar_value>>
    ELSE /\ _silent' = SilentForCmd(sil)
         /\ ngLog' = <<[fn |-> "ngSpice_Command",
                        arg |-> IF cmd.type = "str" THEN Encode(cmd) ELSE cmd]>>
         /\ pc' = "ngSpice_Command"
         /\ result' = "pending"
         /\ stdout' = NoOut
         /\ UNCHANGED <<_attached, _msg, pbar, pbar_value>>

\* send_cmd up to ngSpice_Command
SendCmdBody(cmd, sil) ==
    IF cmd.type \notin {"bytes", "str"}
    THEN Raise("TypeError")
    ELSE /\ _silent' = SilentForCmd(sil)
         /\ ngLog' = <<[fn |-> "ngSpice_Command",
                        arg |-> IF cmd.type = "str" THEN Encode(cmd) ELSE cmd]>>
         /\ pc' = "ngSpice_Command"
         /\ result' = "pending"
         /\ stdout' = NoOut
         /\ UNCHANGED <<_attached, _msg, pbar, pbar_value>>

send_cmd(cmd, sil) ==
    /\ Begin("send_cmd", KwOf(sil))
    /\ SendCmdBody(cmd, sil)

\* _silent after ngSpice_Command has returned
SilentAfterCmd == FALSE

\* _attached after the send_cmd of quit has returned
AttachedAfterCmd == IF op.name = "quit" THEN FALSE ELSE _attached

\* the return of ngSpice_Command with quit emptying the callback table
CommandReturnDropsCallbacks ==
    /\ pc = "ngSpice_Command"
    /\ _silent' = SilentAfterCmd
    /\ _attached' = AttachedAfterCmd
    /\ _callbacks' = IF op.name = "quit" THEN [k \in {} |-> k] ELSE _callbacks
    /\ result' = "ok"
    /\ pc' = "idle"
    /\ cb' = NoCb
    /\ cbCount' = 0
    /\ UNCHANGED <<use_progress_bar, _msg, pbar, pbar_value,
                   registered, op, ngLog, stdout, fed>>
    /\ UNCHANGED vvars

\* ngSpice_Command returns: the rest of send_cmd, and of quit when quit called it
CommandReturn ==
    /\ pc = "ngSpice_Command"
    /\ _silent' = SilentAfterCmd
    /\ _attached' = AttachedAfterCmd
    /\ result' = "ok"
    /\ pc' = "idle"
    /\ cb' = NoCb
    /\ cbCount' = 0
    /\ UNCHANGED <<use_progress_bar, _msg, pbar, pbar_value, _callbacks,
                   registered, op, ngLog, stdout, fed>>
    /\ UNCHANGED vvars

\* the char** array of send_circ: the encoded lines and a final NULL
CircArray(lines) ==
    [i \in 1..(Len(lines) + 1) |->
        IF i <= Len(lines)
        THEN [null |-> FALSE, bytes |-> Encode(lines[i]).text]
        ELSE [null |-> TRUE, bytes |-> << >>]]

\* _silent as send_circ sets it before the native call
SilentForCirc(kw) == IF kw = "absent" THEN _silent ELSE (kw = "True")

\* send_circ up to ngSpice_Circ
send_circ(lines, kw) ==
    /\ Begin("send_circ", kw)
    /\ IF \E i \in DOMAIN lines : lines[i].type # "str"
       THEN Raise("ValueError")
       ELSE /\ _silent' = SilentForCirc(kw)
            /\ ngLog' = <<[fn |-> "ngSpice_Circ", arg |-> CircArray(lines)]>>
            /\ pc' = "ngSpice_Circ"
            /\ result' = "pending"
            /\ stdout' = NoOut
            /\ UNCHANGED <<_attached, _msg, pbar, pbar_value>>

\* _silent after ngSpice_Circ has returned status r
SilentAfterCirc(r) == IF r # 0 THEN _silent ELSE FALSE

\* the return of ngSpice_Circ with the load tried again after a failure
CircReturnRetry(r) ==
    /\ pc = "ngSpice_Circ"
    /\ IF r # 0 /\ Len(ngLog) = 1
       THEN /\ ngLog' = Append(ngLog, ngLog[1])
            /\ UNCHANGED <<_silent, result, pc, cb, cbCount>>
       ELSE /\ _silent' = SilentAfterCirc(r)
            /\ result' = IF r # 0 THEN "RuntimeError" ELSE "ok"
            /\ pc' = "idle"
            /\ cb' = NoCb
            /\ cbCount' = 0
            /\ UNCHANGED ngLog
    /\ UNCHANGED <<use_progress_bar, _attached, _msg, pbar, pbar_value, _callbacks,
                   registered, op, stdout, fed>>
    /\ UNCHANGED vvars

\* ngSpice_Circ returns status r: the rest of send_circ
CircReturn(r) ==
    /\ pc = "ngSpice_Circ"
    /\ _silent' = SilentAfterCirc(r)
    /\ result' = IF r # 0 THEN "RuntimeError" ELSE "ok"
    /\ pc' = "idle"
    /\ cb' = NoCb
    /\ cbCount' = 0
    /\ UNCHANGED <<use_progress_bar, _attached, _msg, pbar, pbar_value, _callbacks,
                   registered, op, ngLog, stdout, fed>>
    /\ UNCHANGED vvars

\* source without the test of the file
sourceNoFileTest(filepath, isfile) ==
    /\ Begin("source", "absent")
    /\ SendCmdBody(Str(T_source \o filepath), FALSE)

\* source: the file is there or not (path.isfile)
source(filepath, isfile) ==
    /\ Begin("source", "absent")
    /\ IF ~isfile
       THEN Raise("FileNotFoundError")
       ELSE SendCmdBody(Str(T_source \o filepath), FALSE)

run(rawfile, sil) ==
    /\ Begin("run", KwOf(sil))
    /\ IF rawfile # << >>
       THEN SendCmdBody(Str(T_run_sp \o rawfile), sil)
       ELSE SendCmdBody(Str(T_run), sil)

reset(sil) ==
    /\ Begin("reset", KwOf(sil))
    /\ SendCmdBody(Str(T_reset), sil)

\* whether quit goes on to send the quit command
QuitSends == _attached

quit ==
    /\ Begin("quit", "absent")
    /\ IF QuitSends
       THEN SendCmdBody(Str(T_quit), FALSE)
       ELSE /\ stdout' = Emit(NoOut, "print", T_detached \o NL)
            /\ result' = "ok"
            /\ pc' = "idle"
            /\ ngLog' = << >>
            /\ UNCHANGED <<_attached, _silent, _msg, pbar, pbar_value>>

\* write called on the handle
write(m) ==
    /\ Begin("write", "absent")
    /\ _msg' = WriteMsg(m)
    /\ stdout' = WriteOut(NoOut, m)
    /\ result' = "ok"
    /\ pc' = "idle"
    /\ ngLog' = << >>
    /\ UNCHANGED <<_attached, _silent, pbar, pbar_value>>

(***************************************************************************)
(* VectorInfo: the descriptor ngGet_Vec_Info returns, and indexing into    *)
(* its real data.  An optional integer (a slice bound, a step) is Some(i)  *)
(* or None.  Keys are an integer, a slice or another value; the slices of  *)
(* the model have no step or a positive one.                               *)
(***************************************************************************)
Some(i) == [some |-> TRUE, v |-> i]
None == [some |-> FALSE, v |-> 0]

\* Python truth of an optional integer: None and 0 are false
Truthy(o) == o.some /\ o.v # 0

IntKey(i) == [kind |-> "int", i |-> i, start |-> None, stop |-> None, step |-> None]
SliceKey(a, b, c) == [kind |-> "slice", i |-> 0, start |-> a, stop |-> b, step |-> c]
OtherKey == [kind |-> "str", i |-> 0, start |-> None, stop |-> None, step |-> None]

\* what an indexing returns or raises
Raised(error) == [status |-> error, kind |-> "none", idx |-> << >>]
Item(i) == [status |-> "ok", kind |-> "item", idx |-> <<i>>]
List(idx) == [status |-> "ok", kind |-> "list", idx |-> idx]
NoData == [status |-> "ok", kind |-> "None", idx |-> << >>]

\* C integer division (truncation toward zero), b > 0
CDiv(a, b) == IF a >= 0 THEN a \div b ELSE -((-a) \div b)

\* ctypes pointer[key]: the (0-based) positions read from the memory the
\* pointer addresses, for an integer or for a slice with a stop
PointerSubscript(key) ==
    IF key.kind = "int" THEN Item(key.i)
    ELSE LET step == IF key.step.some THEN key.step.v ELSE 1
             start == IF key.start.some THEN key.start.v ELSE 0
             stop == key.stop.v
             len == IF start > stop THEN 0
                    ELSE CDiv(stop - start - 1, step) + 1
         IN  IF step = 0 THEN Raised("ValueError")
             ELSE List([t \in 1..len |-> start + (t - 1) * step])

\* the slice __getitem__ goes on with: a stop that is None or 0 becomes len(self)
SliceStop(vi, key) ==
    IF ~Truthy(key.stop) THEN [key EXCEPT !.stop = Some(vi.v_length)] ELSE key

\* the integer check with > for >=
IntKeyBadOffByOne(vi, key) == key.i < 0 \/ key.i > vi.v_length

\* the index checks of __getitem__ on an integer key
IntKeyBad(vi, key) == key.i < 0 \/ key.i >= vi.v_length

\* the index checks of __getitem__ on a slice (after SliceStop)
SliceKeyBad(vi, key) ==
    \/ Truthy(key.start) /\ key.start.v < 0
    \/ Truthy(key.stop) /\ key.stop.v > vi.v_length

\* __getitem__ without the test of the pointer: subscripting a NULL ctypes
\* pointer raises ValueError
VectorInfo_getitemNoNullTest(vi, key) ==
    IF key.kind = "int" /\ IntKeyBad(vi, key) THEN Raised("IndexError")
    ELSE IF key.kind = "slice" /\ SliceKeyBad(vi, SliceStop(vi, key))
    THEN Raised("IndexError")
    ELSE IF key.kind \notin {"int", "slice"} THEN Raised("TypeError")
    ELSE IF ~vi.v_realdata.null
    THEN PointerSubscript(IF key.kind = "slice" THEN SliceStop(vi, key) ELSE key)
    ELSE Raised("ValueError")

\* VectorInfo.__getitem__: the positions of v_realdata it reads, no data, or
\* the error it raises
VectorInfo_getitem(vi, key) ==
    IF key.kind = "int" /\ IntKeyBad(vi, key) THEN Raised("IndexError")
    ELSE IF key.kind = "slice" /\ SliceKeyBad(vi, SliceStop(vi, key))
    THEN Raised("IndexError")
    ELSE IF key.kind \notin {"int", "slice"} THEN Raised("TypeError")
    ELSE IF ~vi.v_realdata.null
    THEN PointerSubscript(IF key.kind = "slice" THEN SliceStop(vi, key) ELSE key)
    ELSE NoData

\* a double read from outside the vector's memory
Garbage == {-1, -2}

\* the values a read of the positions idx can give: the vector's samples, and
\* any double for a position outside its memory
Reads(mem, idx) ==
    LET outside == {t \in DOMAIN idx : idx[t] < 0 \/ idx[t] >= Len(mem)}
    IN  {[t \in DOMAIN idx |-> IF t \in outside THEN g[t] ELSE mem[idx[t] + 1]] :
            g \in [outside -> Garbage]}

(***************************************************************************)
(* The engine's vector store: one plot, its vectors in the order           *)
(* ngSpice_AllVecs lists them.                                             *)
(***************************************************************************)
T_branch == <<"#", "b", "r", "a", "n", "c", "h">>
PlotName == <<"p", "1">>
V_n1 == <<"n", "1">>
V_branch == <<"v", "1">> \o T_branch
V_sub == <<"a", ".", "v", "1">> \o T_branch
V_none == <<"z">>

VecNames == <<V_n1, V_branch, V_sub>>

\* the samples of vector x of a plot of length n
Samples(x, n) == [t \in 1..n |-> 10 * x + t]

Stores ==
    {[x \in DOMAIN VecNames |->
        [v_name |-> VecNames[x],
         v_realdata |-> [null |-> x \in nulls,
                         mem |-> IF x \in nulls THEN << >> ELSE Samples(x, n)],
         v_length |-> n]] :
     n \in 0..MaxLen, nulls \in SUBSET (DOMAIN VecNames)}

\* ngSpice_CurPlot
get_cur_plot == PlotName

\* get_all_vecs: the qualified names of the vectors of a plot
get_all_vecs(plot) ==
    LET pl == IF plot = << >> THEN get_cur_plot ELSE plot
    IN  [x \in DOMAIN VecNames |-> pl \o <<".">> \o VecNames[x]]

\* ngGet_Vec_Info: the vectors a name designates (by its raw name in the
\* current plot, or qualified by the plot)
EngineFind(name) ==
    {x \in DOMAIN VecNames :
        name = VecNames[x] \/ name = PlotName \o <<".">> \o VecNames[x]}

NoVec == [v_name |-> << >>, v_realdata |-> [null |-> TRUE, mem |-> << >>],
          v_length |-> 0]

\* _get_vec_info: the descriptor, TypeError for a name that is not text,
\* ValueError for the NULL pointer of an unknown vector
_get_vec_info(vector) ==
    IF vector.type \notin {"bytes", "str"}
    THEN [status |-> "TypeError", vi |-> NoVec]
    ELSE IF EngineFind(vector.text) = {}
    THEN [status |-> "ValueError", vi |-> NoVec]
    ELSE [status |-> "ok",
          vi |-> store[CHOOSE x \in EngineFind(vector.text) : TRUE]]

(***************************************************************************)
(* re.search with the branch pattern of get_all_vectors: a word, then      *)
(* #branch at the end of the name (or before a final newline).             *)
(***************************************************************************)
BranchMatches(t) ==
    {m \in (1..Len(t)) \X (1..Len(t)) :
        /\ m[1] < m[2]
        /\ AllWord(t, m[1], m[2] - 1)
        /\ m[2] + Len(T_branch) - 1 <= Len(t)
        /\ SubSeq(t, m[2], m[2] + Len(T_branch) - 1) = T_branch
        /\ \/ m[2] + Len(T_branch) - 1 = Len(t)
           \/ /\ m[2] + Len(T_branch) = Len(t)
              /\ t[Len(t)] = "\n"}

MatchBranch(t) ==
    LET ms == BranchMatches(t)
    IN  IF ms = {} THEN NoMatch
        ELSE LET m == CHOOSE x \in ms : \A y \in ms : x[1] <= y[1]
             IN  [matched |-> TRUE, g1 |-> Sub(t, m[1], m[2] - 1), g2 |-> << >>]

\* the column name get_all_vectors gives a vector
ColumnName(v_name) ==
    IF MatchBranch(Decode(v_name).text).matched
    THEN <<"i", "(">> \o MatchBranch(Decode(v_name).text).g1 \o <<")">>
    ELSE Decode(v_name).text

\* the name as_series gives the Series
SeriesName(v_name) == Decode(v_name).text

WholeSlice == SliceKey(None, None, None)

\* the data left as a view of the descriptor's memory instead of a list
DataOfView(r, items) == [kind |-> "view", items |-> << >>]

\* the data of an indexing result: the values read, or no data
DataOf(r, items) == [kind |-> r.kind, items |-> items]

\* df[name] = data: the column is replaced where it exists, appended otherwise
SetColumn(df, name, data) ==
    IF \E c \in DOMAIN df : df[c].name = name
    THEN [c \in DOMAIN df |->
            IF df[c].name = name THEN [name |-> name, data |-> data] ELSE df[c]]
    ELSE Append(df, [name |-> name, data |-> data])

\* the table get_all_vectors builds from the first k vectors of the plot
RECURSIVE TableOf(_, _)
TableOf(names, k) ==
    IF k = 0 THEN << >>
    ELSE LET vi == _get_vec_info(Str(names[k])).vi
             r == VectorInfo_getitem(vi, WholeSlice)
         IN  SetColumn(TableOf(names, k - 1), ColumnName(vi.v_name),
                       DataOf(r, IF r.kind = "list"
                                 THEN [t \in DOMAIN r.idx |-> vi.v_realdata.mem[r.idx[t] + 1]]
                                 ELSE << >>))

NoRet == [op |-> "none"]

\* the queries leave the handle's dispatch state alone
Query ==
    /\ pc = "idle"
    /\ UNCHANGED hvars
    /\ UNCHANGED <<store, held>>

\* _get_vec_info called on the handle: the engine overwrites its descriptor
get_vec_info(vector) ==
    /\ Query
    /\ vecinfo' = IF _get_vec_info(vector).status = "ok"
                  THEN _get_vec_info(vector).vi ELSE vecinfo
    /\ ret' = [op |-> "_get_vec_info", arg |-> vector,
               status |-> _get_vec_info(vector).status]

\* indexing the descriptor the last query returned
getitem(key) ==
    /\ Query
    /\ vecinfo # NoVec
    /\ \E items \in Reads(vecinfo.v_realdata.mem, VectorInfo_getitem(vecinfo, key).idx) :
          ret' = [op |-> "__getitem__", key |-> key,
                  result |-> VectorInfo_getitem(vecinfo, key),
                  items |-> items]
    /\ UNCHANGED vecinfo

get_vector(vector) ==
    /\ Query
    /\ LET g == _get_vec_info(vector)
           r == VectorInfo_getitem(g.vi, WholeSlice)
       IN  IF g.status # "ok"
           THEN /\ ret' = [op |-> "get_vector", arg |-> vector, status |-> g.status]
                /\ UNCHANGED vecinfo
           ELSE /\ vecinfo' = g.vi
                /\ \E items \in Reads(g.vi.v_realdata.mem, r.idx) :
                      ret' = [op |-> "get_vector", arg |-> vector, status |-> "ok",
                              raw |-> g.vi.v_name,
                              name |-> SeriesName(g.vi.v_name),
                              data |-> DataOf(r, items)]

get_all_vectors(plot) ==
    /\ Query
    /\ vecinfo' = _get_vec_info(Str(get_all_vecs(plot)[Len(VecNames)])).vi
    /\ ret' = [op |-> "get_all_vectors", status |-> "ok",
               raw |-> [x \in DOMAIN VecNames |->
                           _get_vec_info(Str(get_all_vecs(plot)[x])).vi.v_name],
               table |-> TableOf(get_all_vecs(plot), Len(VecNames))]

\* nothing kept
NoHeld == [src |-> "none"]

\* the caller keeps the Series get_vector has just returned
keep_series ==
    /\ pc = "idle"
    /\ ret.op = "get_vector"
    /\ ret.status = "ok"
    /\ held' = [src |-> "series", raw |-> ret.raw, name |-> ret.name,
                data |-> ret.data]
    /\ UNCHANGED hvars
    /\ UNCHANGED <<store, vecinfo, ret>>

\* the caller keeps column c of the table get_all_vectors has just returned
keep_column(c) ==
    /\ pc = "idle"
    /\ ret.op = "get_all_vectors"
    /\ c \in DOMAIN ret.table
    /\ held' = [src |-> "column", raw |-> << >>, name |-> ret.table[c].name,
                data |-> ret.table[c].data]
    /\ UNCHANGED hvars
    /\ UNCHANGED <<store, vecinfo, ret>>

(***************************************************************************)
(* NgSpice.__init__: the handle after construction, for either value of    *)
(* use_progress_bar.                                                       *)
(***************************************************************************)
InitCallbacks == [k \in CallbackNames |-> k]

HandleInit ==
    /\ use_progress_bar \in BOOLEAN
    /\ _attached = TRUE
    /\ _silent = FALSE
    /\ _msg = << >>
    /\ pbar = NoBar
    /\ pbar_value = 0
    /\ _callbacks = InitCallbacks
    /\ registered = InitCallbacks
    /\ pc = "idle"
    /\ op = [name |-> "__init__", silent |-> "absent"]
    /\ result = "ok"
    /\ ngLog = << >>
    /\ stdout = NoOut
    /\ cbCount = 0
    /\ cb = NoCb
    /\ fed = NoFed

\* no vector query made yet; the engine holds no plot
VecIdle ==
    /\ store = << >>
    /\ vecinfo = NoVec
    /\ ret = NoRet
    /\ held = NoHeld

\* the engine after a run: a plot of vectors of some length, some without
\* real data
VecInit ==
    /\ store \in Stores
    /\ vecinfo = NoVec
    /\ ret = NoRet
    /\ held = NoHeld

Init == HandleInit /\ VecIdle

Next ==
    \/ \E cmd \in CmdInputs, sil \in BOOLEAN : send_cmd(cmd, sil)
    \/ \E lines \in CircInputs, kw \in KwSilent : send_circ(lines, kw)
    \/ \E isfile \in BOOLEAN : source(F_cir, isfile)
    \/ \E rawfile \in {<< >>, F_cir}, sil \in BOOLEAN : run(rawfile, sil)
    \/ \E sil \in BOOLEAN : reset(sil)
    \/ quit
    \/ \E m \in {L_plain} : write(m)
    \/ CommandReturn
    \/ \E r \in {0, 1} : CircReturn(r)
    \/ \E value \in CharLines : ng_send_char_inner(value)
    \/ \E value \in StatLines : ng_send_stat_inner(value)
    \/ \E a \in ExitArgs : ng_controlled_exit_inner(a[1], a[2], a[3])
    \/ ng_send_data_inner
    \/ ng_send_init_data_inner
    \/ ng_bg_thread_running_inner

Spec == Init /\ [][Next]_vars

(***************************************************************************)
(* The vector accessors, on a handle whose engine holds a plot.            *)
(***************************************************************************)
IntKeys == {IntKey(i) : i \in -1..(MaxLen + 1)}

Bounds == {None} \cup {Some(i) : i \in -1..(MaxLen + 1)}

SliceKeys == {SliceKey(a, b, c) : a \in Bounds, b \in Bounds, c \in {None, Some(2)}}

VecQueries ==
    {Str(V_n1), Str(V_branch), Bytes(PlotName \o <<".">> \o V_sub), Str(V_none), NotText}

InitVec ==
    /\ HandleInit
    /\ use_progress_bar = FALSE
    /\ VecInit

NextVec ==
    \/ \E vector \in VecQueries : get_vec_info(vector)
    \/ \E key \in IntKeys \cup SliceKeys \cup {OtherKey} : getitem(key)
    \/ \E vector \in VecQueries : get_vector(vector)
    \/ \E plot \in {<< >>, PlotName} : get_all_vectors(plot)

VecSpec == InitVec /\ [][NextVec]_vars

(***************************************************************************)
(* The fetches, with a caller that keeps what they return.                 *)
(***************************************************************************)
NextCopy ==
    \/ \E vector \in VecQueries : get_vec_info(vector)
    \/ \E vector \in VecQueries : get_vector(vector)
    \/ \E plot \in {<< >>, PlotName} : get_all_vectors(plot)
    \/ keep_series
    \/ \E c \in 1..Len(VecNames) : keep_column(c)

CopySpec == InitVec /\ [][NextCopy]_vars

(***************************************************************************)
(* Progress tracking on a handle with the bar enabled, fed percentages     *)
(* that are not exact in binary.                                           *)
(***************************************************************************)
InitBar ==
    /\ HandleInit
    /\ use_progress_bar = TRUE
    /\ VecIdle

NextBar ==
    \/ send_cmd(Str(T_run), FALSE)
    \/ CommandReturn
    \/ \E value \in RoundLines : ng_send_stat_inner(value)

BarSpec == InitBar /\ [][NextBar]_vars

(***************************************************************************)
(* Properties.                                                             *)
(***************************************************************************)
\* a step in which the engine invokes the statistics callback
StatStep == cbCount' = cbCount + 1 /\ cb'.name = "send_stat"

C2_SilentCallWritesNothing == op.silent = "True" => stdout.n = 0

DispatchMethods == {"send_cmd", "send_circ", "source", "run", "reset", "quit"}

Errors == {"TypeError", "ValueError", "RuntimeError", "FileNotFoundError"}

\* C3: once the handle is detached, a call of a dispatch method makes no
\* native call: it fails with an error, or it only emits a diagnostic.
C3_NoDispatchAfterDetach ==
    [][(pc = "idle" /\ ~_attached /\ op'.name \in DispatchMethods) =>
          /\ pc' = "idle"
          /\ ngLog' = << >>
          /\ \/ result' \in Errors
             \/ /\ stdout'.n = 1
                /\ UNCHANGED <<_attached, _silent, _msg, pbar, pbar_value>>]_vars

\* C4: every callback the engine invokes completes without a fault leaving
\* its body and returns the continue status 0.
C4_CallbacksReturnZero == cb.name # "none" => (~cb.fault /\ cb.ret = 0)

\* C5: with progress reporting enabled and silent off, while the lines fed to
\* the statistics callback are a non-decreasing sequence of percentages in
\* [0, 100], the stored percentage is the percentage of the last line fed
\* (the first line included).
C5_StoredPercentageIsLastFed ==
    (use_progress_bar /\ fed.seq = "mono") => pbar_value = fed.last

\* C6: with progress reporting enabled and silent off, while the lines fed
\* are a non-decreasing sequence of percentages, the tracker is active
\* exactly as long as no value >= 99.9 has been fed: it is not active after a
\* line carrying such a value, the first line included.
C6_TrackingEndsAtFinalPct ==
    (use_progress_bar /\ fed.seq = "mono") => (pbar.exists <=> fed.last < FinalPct)

\* the sink after one more line written to standard output
Routed(line) == [n |-> stdout.n + 1, last |-> [via |-> "stdout", text |-> line \o NL]]

\* C7 as claimed: with progress reporting disabled and silent off, every line
\* the statistics callback is given (and handles without a fault) is written
\* unchanged to the sink, whether it matches the pattern or not, and the
\* tracker stays Idle.
C7_EveryStatLineRouted ==
    [][(StatStep /\ ~use_progress_bar /\ ~_silent /\ ~cb'.fault) =>
          /\ stdout' = Routed(cb'.arg)
          /\ ~pbar'.exists]_vars

\* C7 amended: with progress reporting disabled the tracker never leaves
\* Idle, and with silent off a line given to the statistics callback is
\* written unchanged to the sink exactly when it does not match the pattern:
\* a line that matches the pattern (or that cannot be decoded) writes nothing.
C7_NonMatchingStatLineRouted ==
    [][/\ ~use_progress_bar => ~pbar'.exists
       /\ (StatStep /\ ~use_progress_bar /\ ~_silent) =>
             IF Decode(cb'.arg).ok /\ ~MatchOfLine[cb'.arg].matched
             THEN stdout' = Routed(cb'.arg) /\ ~cb'.fault
             ELSE stdout' = stdout]_vars

\* C7 witness: progress reporting disabled, silent off, the statistics
\* callback was given a line without a percentage and the sink holds it.
C7_Witness ==
    /\ ~use_progress_bar
    /\ ~_silent
    /\ cb.name = "send_stat"
    /\ cb.arg = N_ok
    /\ stdout.n = 1
    /\ stdout.last = [via |-> "stdout", text |-> N_ok \o NL]
    /\ ~pbar.exists

\* a step in which the statistics callback is given a line while Tracking
TrackingUpdate == StatStep /\ pbar.exists /\ ~_silent

\* the line given in this step carries a percentage lower than the stored one
Decreasing ==
    /\ MatchOfLine[cb'.arg].matched
    /\ FloatOfLine[cb'.arg].ok
    /\ FloatOfLine[cb'.arg].v < pbar_value

EndsWithBranch(raw) ==
    /\ Len(raw) > Len(T_branch)
    /\ SubSeq(raw, Len(raw) - Len(T_branch) + 1, Len(raw)) = T_branch

ExposedName(raw) ==
    IF EndsWithBranch(raw)
    THEN <<"i", "(">> \o SubSeq(raw, 1, Len(raw) - Len(T_branch)) \o <<")">>
    ELSE raw

\* C9: get_vector and get_all_vectors both expose a vector named
\* <node>#branch as i(<node>) and any other vector under its raw name.
C9_BranchRenamedEverywhere ==
    /\ (ret.op = "get_vector" /\ ret.status = "ok") =>
          ret.name = ExposedName(ret.raw)
    /\ ret.op = "get_all_vectors" =>
          \A x \in DOMAIN ret.raw :
              \E c \in DOMAIN ret.table : ret.table[c].name = ExposedName(ret.raw[x])

\* C10: on a descriptor of length N with real data, index N-1 returns the
\* last element, index N raises IndexError, and the open-ended slice from k
\* (0 <= k <= N) returns the N-k elements k..N-1 in order.
C10_RangeAccessBoundaries ==
    (ret.op = "__getitem__" /\ ~vecinfo.v_realdata.null) =>
        LET N == vecinfo.v_length
            mem == vecinfo.v_realdata.mem
        IN  /\ (N >= 1 /\ ret.key = IntKey(N - 1)) =>
                  /\ ret.result.status = "ok"
                  /\ ret.result.kind = "item"
                  /\ ret.items = <<mem[N]>>
            /\ ret.key = IntKey(N) => ret.result.status = "IndexError"
            /\ \A k \in 0..N :
                  ret.key = SliceKey(Some(k), None, None) =>
                      /\ ret.result.status = "ok"
                      /\ ret.result.kind = "list"
                      /\ ret.items = [t \in 1..(N - k) |-> mem[k + t]]

\* C10 witness: an open-ended slice from 1 of a vector of the largest length
\* returned all its elements but the first.
C10_Witness ==
    /\ ret.op = "__getitem__"
    /\ ~vecinfo.v_realdata.null
    /\ vecinfo.v_length = MaxLen
    /\ ret.key = SliceKey(Some(1), None, None)
    /\ ret.result.kind = "list"
    /\ Len(ret.items) = MaxLen - 1

\* C11: a range access whose start is out of bounds (start < 0 or start
\* greater than N-1) fails with an index error, whatever the stop; no such
\* access returns data.
C11_OutOfBoundsStartFails ==
    (/\ ret.op = "__getitem__"
     /\ ret.key.kind = "slice"
     /\ ret.key.start.some
     /\ (ret.key.start.v < 0 \/ ret.key.start.v > vecinfo.v_length - 1)) =>
        ret.result.status = "IndexError"

\* the key passes the bounds a descriptor of length N sets: an index within
\* 0..N-1, a range whose start is not negative and whose stop is at most N
InBounds(key, N) ==
    IF key.kind = "int" THEN key.i >= 0 /\ key.i < N
    ELSE /\ ~(key.start.some /\ key.start.v < 0)
         /\ ~(key.stop.some /\ key.stop.v > N)

\* C12 as claimed: with a null real-data pointer, an indexed access yields
\* the no-data value and does not raise, for every index or range given.
C12_NullDataNeverRaises ==
    (/\ ret.op = "__getitem__"
     /\ vecinfo.v_realdata.null
     /\ ret.key.kind \in {"int", "slice"}) =>
        ret.result = NoData

\* C12 amended: with a null real-data pointer, an indexed access with an
\* index or range within the descriptor's bounds yields the no-data value
\* and does not raise; an index or range out of bounds raises IndexError as
\* it does with data.
C12_NullDataInBounds ==
    (/\ ret.op = "__getitem__"
     /\ vecinfo.v_realdata.null
     /\ ret.key.kind \in {"int", "slice"}) =>
        IF InBounds(ret.key, vecinfo.v_length)
        THEN ret.result = NoData /\ ret.items = << >>
        ELSE ret.result.status = "IndexError"

\* C12 witness: a range of a descriptor of the largest length without real
\* data was asked for and no data came back.
C12_Witness ==
    /\ ret.op = "__getitem__"
    /\ vecinfo.v_realdata.null
    /\ vecinfo.v_length = MaxLen
    /\ ret.key = SliceKey(Some(1), Some(MaxLen), None)
    /\ ret.result = NoData

\* what a kept value shows when it is read while the descriptor is vi
Deref(data, vi) ==
    IF data.kind = "view" THEN vi.v_realdata.mem ELSE data.items

\* C13: a copy of a vector kept from get_vector, or a column kept from
\* get_all_vectors, reads the same before and after every later query,
\* although each query overwrites the engine's descriptor; and a later fetch
\* of the same vector (the engine given no command) returns data equal to
\* the copy.
C13_CopySurvivesQueries ==
    [][(held # NoHeld /\ held' = held) =>
          /\ Deref(held.data, vecinfo') = Deref(held.data, vecinfo)
          /\ (/\ held.src = "series"
              /\ ret'.op = "get_vector"
              /\ ret'.status = "ok"
              /\ ret'.raw = held.raw) =>
                 /\ ret'.data.kind = held.data.kind
                 /\ Deref(ret'.data, vecinfo') = Deref(held.data, vecinfo')
          /\ (held.src = "column" /\ ret'.op = "get_all_vectors") =>
                 \E c \in DOMAIN ret'.table :
                     /\ ret'.table[c].name = held.name
                     /\ ret'.table[c].data.kind = held.data.kind
                     /\ Deref(ret'.table[c].data, vecinfo')
                            = Deref(held.data, vecinfo')]_vars

\* C13 witness: the caller holds a copy of all the samples of n1, and a later
\* fetch of another vector has overwritten the descriptor.
C13_Witness ==
    /\ held # NoHeld
    /\ held.src = "series"
    /\ held.raw = V_n1
    /\ Len(held.data.items) = MaxLen
    /\ ret.op = "get_vector"
    /\ ret.status = "ok"
    /\ ret.raw = V_branch
    /\ vecinfo.v_name = V_branch

\* C14: source with a path that names no file fails with FileNotFoundError,
\* invokes no native entry point and leaves the silent flag, the last
\* message, the progress state and the attached flag as they were.
C14_SourceMissingFile ==
    [][source(F_cir, FALSE) =>
          /\ result' = "FileNotFoundError"
          /\ pc' = "idle"
          /\ ngLog' = << >>
          /\ UNCHANGED <<_silent, _msg, pbar, pbar_value, _attached>>]_vars

\* C14 witness: a call of source has failed with FileNotFoundError.
C14_Witness ==
    /\ op.name = "source"
    /\ result = "FileNotFoundError"
    /\ pc = "idle"
    /\ ngLog = << >>

\* C15: send_cmd with a command that is neither text nor bytes, and
\* send_circ with a line that is not text, raise an error without invoking
\* the engine and without changing the silent flag.
C15_NonTextRejected ==
    [][/\ (\E sil \in BOOLEAN : send_cmd(NotText, sil)) =>
             /\ result' = "TypeError"
             /\ pc' = "idle"
             /\ ngLog' = << >>
             /\ _silent' = _silent
       /\ (\E kw \in KwSilent : send_circ(<<Str(C_title), NotText>>, kw)) =>
             /\ result' = "ValueError"
             /\ pc' = "idle"
             /\ ngLog' = << >>
             /\ _silent' = _silent]_vars

\* C15 witness: send_cmd was given a non-text command with silent=True, has
\* raised TypeError, and the silent flag is off.
C15_Witness ==
    /\ op = [name |-> "send_cmd", silent |-> "True"]
    /\ result = "TypeError"
    /\ pc = "idle"
    /\ ~_silent

\* the methods that go through send_cmd
CommandMethods == {"send_cmd", "source", "run", "reset"}

\* C16: a call of send_cmd whose argument is accepted invokes
\* ngSpice_Command exactly once, a call of send_circ whose lines are accepted
\* invokes ngSpice_Circ exactly once, and a circuit load that returns a
\* non-zero status ends the call with an error after that single invocation.
C16_DispatchOneShot ==
    /\ (op.name \in CommandMethods /\ result \in {"pending", "ok"}) =>
          /\ Len(ngLog) = 1
          /\ ngLog[1].fn = "ngSpice_Command"
    /\ (op.name = "send_circ" /\ result \in {"pending", "ok", "RuntimeError"}) =>
          /\ Len(ngLog) = 1
          /\ ngLog[1].fn = "ngSpice_Circ"
    /\ result = "RuntimeError" => (op.name = "send_circ" /\ pc = "idle")

\* C16 witness: a circuit load was refused; the call has ended with
\* RuntimeError after one invocation of ngSpice_Circ.
C16_Witness ==
    /\ op.name = "send_circ"
    /\ result = "RuntimeError"
    /\ pc = "idle"
    /\ Len(ngLog) = 1

\* C17: write records its message as the last message whether or not the
\* handle is silent, emits it to the sink (the bar's writer when a bar
\* exists, else standard output) exactly when the silent flag is false, and
\* changes neither the silent flag nor the progress state; checked for write
\* called on the handle and for the write of the initial-data callback.
C17_WriteRecordsAndEmits ==
    [][/\ write(L_plain) =>
             /\ _msg' = L_plain
             /\ stdout' = IF _silent THEN NoOut
                          ELSE [n |-> 1,
                                last |-> [via |-> IF pbar.exists THEN "pbar" ELSE "stdout",
                                          text |-> L_plain \o NL]]
             /\ UNCHANGED <<_silent, pbar, pbar_value>>
       /\ (cbCount' = cbCount + 1 /\ cb'.name = "send_init_data") =>
             /\ _msg' = T_init_data
             /\ stdout' = IF _silent THEN stdout
                          ELSE [n |-> stdout.n + 1,
                                last |-> [via |-> IF pbar.exists THEN "pbar" ELSE "stdout",
                                          text |-> T_init_data \o NL]]
             /\ UNCHANGED <<_silent, pbar, pbar_value>>]_vars

\* C17 witness: during a silent call the initial-data callback has written
\* its message: it is the last message and nothing reached the sink.
C17_Witness ==
    /\ cb.name = "send_init_data"
    /\ _silent
    /\ _msg = T_init_data
    /\ stdout.n = 0

\* C18: the callbacks registered with the engine are the six entries of the
\* handle's callback table, and no operation removes or replaces an entry.
C18_CallbacksRetained ==
    /\ DOMAIN _callbacks = CallbackNames
    /\ \A k \in CallbackNames : _callbacks[k] = k
    /\ registered = _callbacks

\* C18 witness: the handle has been through quit and is detached, and the
\* table still holds the callbacks.
C18_Witness ==
    /\ op.name = "quit"
    /\ result = "ok"
    /\ ~_attached
    /\ DOMAIN _callbacks = CallbackNames

\* a step in which the statistics callback is given, while Tracking, a line
\* that decodes and does not match the pattern
NonMatchWhileTracking ==
    /\ StatStep
    /\ pbar.exists
    /\ ~_silent
    /\ ~MatchOfLine[cb'.arg].matched

\* C19 as claimed: while Tracking, a statistics line that does not match the
\* pattern ends the tracking and is routed to the sink.
C19_NonMatchEndsTracking ==
    [][(NonMatchWhileTracking /\ Decode(cb'.arg).ok) =>
          /\ ~pbar'.exists
          /\ stdout'.n = stdout.n + 1
          /\ stdout'.last.text = cb'.arg \o NL]_vars

\* C19 amended: while Tracking, a statistics line that does not match the
\* pattern is routed to the sink through the bar's writer and leaves the
\* progress state as it is: the tracking goes on (a line that cannot be
\* decoded writes nothing and leaves the progress state as it is too).
C19_NonMatchKeepsTracking ==
    [][NonMatchWhileTracking =>
          /\ pbar' = pbar
          /\ pbar_value' = pbar_value
          /\ IF Decode(cb'.arg).ok
             THEN /\ stdout' = [n |-> stdout.n + 1,
                                last |-> [via |-> "pbar", text |-> cb'.arg \o NL]]
                  /\ _msg' = cb'.arg
             ELSE stdout' = stdout /\ cb'.fault]_vars

\* C19 witness: a bar is tracked and the statistics callback has routed a
\* line without a percentage through the bar's writer.
C19_Witness ==
    /\ pbar.exists
    /\ cb.name = "send_stat"
    /\ cb.arg = N_ok
    /\ stdout.last = [via |-> "pbar", text |-> N_ok \o NL]

\* a step in which the statistics callback updates the bar for a percentage
BarUpdate ==
    /\ StatStep
    /\ pbar.exists
    /\ ~_silent
    /\ MatchOfLine[cb'.arg].matched
    /\ FloatOfLine[cb'.arg].ok

\* one unit in the last place of a double between 64 and 128, in units of u
UlpNear100 == 10 * Pow2(FracBits - (MantissaBits - 6))

\* what the count differs by from the double of the tenths it stands at
Drift(n, tenths) == n.k - Dbl(tenths).k

Abs(i) == IF i < 0 THEN -i ELSE i

\* C20 as claimed: when a tracking episode is finalized, the sum of the
\* deltas applied to the bar since it was created (the bar's count when it
\* is closed) is exactly 100.
C20_DeltasSumToTotal ==
    [][(BarUpdate /\ ~pbar'.exists) =>
          BarN(StatPct(cb'.arg)) = [t |-> BarTotal, k |-> 0]]_vars

\* C20 amended: for percentages in [0, 100] the sum of the deltas equals 100
\* up to floating-point rounding only.  On every update the count stands, in
\* tenths, at the percentage fed (at 100 when the episode is finalized); each
\* call of update adds at most one unit in the last place to what the count
\* differs by from that double; and an update between percentages that are
\* exact in binary, from an exact count, leaves the count exact.
C20_DeltasSumToTotalRounded ==
    [][BarUpdate =>
          LET p == StatPct(cb'.arg)
              to == IF p >= FinalPct THEN BarTotal ELSE p
              n0 == [t |-> pbar.n, k |-> pbar.r]
          IN  /\ pbar.n = pbar_value
              /\ BarN(p).t = to
              /\ ~pbar'.exists <=> p >= FinalPct
              /\ Abs(Drift(BarN(p), to) - Drift(n0, pbar_value))
                     <= Len(cb'.updates) * UlpNear100
              /\ (Drift(n0, pbar_value) = 0 /\ Dbl(p).k = 0 /\ Dbl(pbar_value).k = 0)
                     => BarN(p) = [t |-> to, k |-> 0]]_vars

\* C20 witness: an episode that stood at 80.2 has been finalized by a line
\* of 100.
C20_Witness ==
    /\ ~pbar.exists
    /\ cb.name = "send_stat"
    /\ cb.arg = P_100
    /\ cb.updates = <<BarTotal - 802, 0>>
    /\ pbar_value = BarTotal

\* C21: the table get_all_vectors returns has exactly one column per vector
\* get_all_vecs lists for the plot: distinct raw names, branch names of the
\* same node under different prefixes included, never share a column, and
\* the data of every vector is in the table.
C21_OneColumnPerVector ==
    ret.op = "get_all_vectors" =>
        /\ Len(ret.table) = Len(get_all_vecs(<< >>))
        /\ \A x \in DOMAIN ret.raw :
              ~store[x].v_realdata.null =>
                  \E c \in DOMAIN ret.table :
                      ret.table[c].data.items = store[x].v_realdata.mem

\* C22: on a descriptor of length N with real data, every explicit range
\* a:b with 0 <= a <= b <= N (b = 0 and a = b included) returns exactly the
\* b-a elements a..b-1 in order.
C22_ExplicitRangeExact ==
    (ret.op = "__getitem__" /\ ~vecinfo.v_realdata.null) =>
        LET N == vecinfo.v_length
            mem == vecinfo.v_realdata.mem
        IN  \A a \in 0..N : \A b \in a..N :
                ret.key = SliceKey(Some(a), Some(b), None) =>
                    /\ ret.result.status = "ok"
                    /\ ret.result.kind = "list"
                    /\ ret.items = [t \in 1..(b - a) |-> mem[a + t]]

=============================================================================
